---- MODULE Spec2Model ----
(***************************************************************************)
(* A model of the NPS-WEB helper scripts:                                  *)
(*   build_publications_json.py  (BibTeX text -> publication records)      *)
(*   deploy.py                   (git stash / pull / commit / push run)    *)
(* Python strings are modelled as sequences of one-character strings, so   *)
(* that strip, replace, startswith and the regular expressions are         *)
(* computed character by character, as the interpreter computes them.      *)
(***************************************************************************)
EXTENDS Naturals, Integers, Sequences, FiniteSets, TLC

VARIABLES
    \* fix_doi_url applied to a raw value, and then to its own output
    raw, doi_url, doi_again, link_pc,
    \* parse_fields: the character scan and the dictionary it builds
    body, pos, buf, parts, depth, in_quotes, fields, pf_pc,
    \* the record built from one field map (parse_bibtex, lines 138-156)
    fmap, item, rec_pc,
    \* main() / parse_bibtex of build_publications_json.py
    files, fidx, matches, out, items, bib_pc,
    \* deploy.py: the git repository and one run of main()
    tree, stash, stashed, run, popped, dpc

link_vars == <<raw, doi_url, doi_again, link_pc>>
pf_vars == <<body, pos, buf, parts, depth, in_quotes, fields, pf_pc>>
rec_vars == <<fmap, item, rec_pc>>
bib_vars == <<files, fidx, matches, out, items, bib_pc>>
dep_vars == <<tree, stash, stashed, run, popped, dpc>>
vars == <<link_vars, pf_vars, rec_vars, bib_vars, dep_vars>>

(***************************************************************************)
(* Python str primitives                                                   *)
(***************************************************************************)

\* A string literal as the sequence of its characters.
Chars(s) == [i \in 1..Len(s) |-> SubSeq(s, i, i)]

\* s[n:]
Drop(s, n) == SubSeq(s, n + 1, Len(s))

\* str.startswith
StartsWith(s, p) == Len(s) >= Len(p) /\ SubSeq(s, 1, Len(p)) = p

\* str.endswith
EndsWith(s, p) == Len(s) >= Len(p) /\ SubSeq(s, Len(s) - Len(p) + 1, Len(s)) = p

\* the characters str.strip() and the regex class \s remove
IsSpace(c) == c \in {" ", "\t", "\n", "\r"}

RECURSIVE LStrip(_)
LStrip(s) == IF s # <<>> /\ IsSpace(Head(s)) THEN LStrip(Tail(s)) ELSE s

RECURSIVE RStrip(_)
RStrip(s) ==
    IF s # <<>> /\ IsSpace(s[Len(s)]) THEN RStrip(SubSeq(s, 1, Len(s) - 1)) ELSE s

\* str.strip()
Strip(s) == RStrip(LStrip(s))

\* str.replace(old, new): leftmost, non-overlapping occurrences
RECURSIVE Replace(_, _, _)
Replace(s, old, new) ==
    IF Len(s) < Len(old) \/ old = <<>> THEN s
    ELSE IF StartsWith(s, old) THEN new \o Replace(Drop(s, Len(old)), old, new)
    ELSE <<Head(s)>> \o Replace(Tail(s), old, new)

\* re.sub(r"\s+", " ", v)
RECURSIVE CollapseSpace(_)
CollapseSpace(s) ==
    IF s = <<>> THEN <<>>
    ELSE IF IsSpace(Head(s)) THEN <<" ">> \o CollapseSpace(LStrip(s))
    ELSE <<Head(s)>> \o CollapseSpace(Tail(s))

\* str.split(sep) for a non-empty separator: the pieces between occurrences
RECURSIVE SplitAcc(_, _, _)
SplitAcc(s, sep, cur) ==
    IF s = <<>> THEN <<cur>>
    ELSE IF StartsWith(s, sep) THEN <<cur>> \o SplitAcc(Drop(s, Len(sep)), sep, <<>>)
    ELSE SplitAcc(Tail(s), sep, Append(cur, Head(s)))

Split(s, sep) == SplitAcc(s, sep, <<>>)

\* [x.strip() for x in pieces if x.strip()]
RECURSIVE StripNonEmpty(_)
StripNonEmpty(pieces) ==
    IF pieces = <<>> THEN <<>>
    ELSE LET x == Strip(Head(pieces))
         IN  (IF x # <<>> THEN <<x>> ELSE <<>>) \o StripNonEmpty(Tail(pieces))

UpperLetters == Chars("ABCDEFGHIJKLMNOPQRSTUVWXYZ")
LowerLetters == Chars("abcdefghijklmnopqrstuvwxyz")
Digits == Chars("0123456789")

LowerChar(c) ==
    IF \E k \in 1..26 : UpperLetters[k] = c
    THEN LowerLetters[CHOOSE k \in 1..26 : UpperLetters[k] = c]
    ELSE c

\* str.lower()
Lower(s) == [i \in 1..Len(s) |-> LowerChar(s[i])]

(***************************************************************************)
(* Field Normalizer                                                        *)
(***************************************************************************)

strip_wrapping(v) ==
    LET t == Strip(v)
    IN  IF \/ (StartsWith(t, <<"{">>) /\ EndsWith(t, <<"}">>))
           \/ (StartsWith(t, <<"\"">>) /\ EndsWith(t, <<"\"">>))
        THEN SubSeq(t, 2, Len(t) - 1)
        ELSE t

clean_tex(v) ==
    LET a == strip_wrapping(v)
        b == Replace(Replace(a, <<"{">>, <<>>), <<"}">>, <<>>)
        c == Replace(b, <<"\\", "&">>, <<"&">>)
    IN  Strip(CollapseSpace(c))

split_tags(v) ==
    LET c == clean_tex(v)
    IN  IF c = <<>> THEN <<>> ELSE StripNonEmpty(Split(c, <<",">>))

HttpDoi == Chars("http://doi.org/")
HttpsDoi == Chars("https://doi.org/")
DoiPrefix == Chars("10.")
HttpScheme == Chars("http://")
HttpsScheme == Chars("https://")

\* re.sub(r"^https?://", "", s)
StripScheme(s) ==
    IF StartsWith(s, HttpsScheme) THEN Drop(s, Len(HttpsScheme))
    ELSE IF StartsWith(s, HttpScheme) THEN Drop(s, Len(HttpScheme))
    ELSE s

\* fix_doi_url with its last branch discarding the value instead of returning it
fix_doi_url_discarding(v) ==
    LET c == clean_tex(v)
        s == Replace(c, HttpDoi, HttpsDoi)
    IN  IF c = <<>> THEN <<>>
        ELSE IF StartsWith(s, HttpsDoi) THEN s
        ELSE IF StartsWith(StripScheme(s), DoiPrefix)
             THEN HttpsDoi \o StripScheme(s)
        ELSE <<>>

fix_doi_url(v) ==
    LET c  == clean_tex(v)
        s1 == Replace(Replace(c, HttpDoi, HttpsDoi),
                      HttpsDoi, HttpsDoi)
        s2 == StripScheme(s1)
    IN  IF c = <<>> THEN <<>>
        ELSE IF StartsWith(s1, HttpsDoi) THEN s1
        ELSE IF StartsWith(s2, DoiPrefix) THEN HttpsDoi \o s2
        ELSE s2

(***************************************************************************)
(* Values of the variables of the parts a specification does not run       *)
(***************************************************************************)

LinkIdle == raw = <<>> /\ doi_url = <<>> /\ doi_again = <<>> /\ link_pc = "idle"

PfIdle ==
    /\ body = <<>> /\ pos = 0 /\ buf = <<>> /\ parts = <<>> /\ depth = 0
    /\ in_quotes = FALSE /\ fields = <<>> /\ pf_pc = "idle"

RecIdle == fmap = <<>> /\ item = <<>> /\ rec_pc = "idle"

BibIdle ==
    /\ files = <<>> /\ fidx = 0 /\ matches = <<>> /\ out = <<>> /\ items = <<>>
    /\ bib_pc = "idle"

DepIdle ==
    /\ tree = <<>> /\ stash = <<>> /\ stashed = FALSE
    /\ run = 0 /\ popped = <<>> /\ dpc = "idle"

\* every concatenation of at most n members of pool
RECURSIVE Concats(_, _)
Concats(pool, n) ==
    IF n = 0 THEN {<<>>}
    ELSE LET prev == Concats(pool, n - 1)
         IN  prev \cup {p \o c : p \in prev, c \in pool}

(***************************************************************************)
(* fix_doi_url on a raw doi / doi_url field value                          *)
(***************************************************************************)

MaxLinkChunks == 3

LinkChunks ==
    { HttpScheme, HttpsScheme, Chars("doi.org/"), Chars("10.1/x"), Chars("ftp://"),
      <<"x">>, <<" ">>, <<"{">>, <<"}">>, <<"\"">>, Chars("\\&") }

LinkExamples ==
    { Chars("not a url"), Chars("10.1000/xyz123"),
      Chars("https://doi.org/10.1000/xyz123"), Chars("http://doi.org/10.1000/xyz123"),
      Chars("https://example.org/paper.pdf"), Chars(" {https://10.1000/xyz123} "),
      Chars("see http://doi.org/10.1/x"), Chars("R\\&D") }

LinkInputs == Concats(LinkChunks, MaxLinkChunks) \cup LinkExamples

LinkInit ==
    /\ raw \in LinkInputs
    /\ doi_url = <<>> /\ doi_again = <<>> /\ link_pc = "start"
    /\ PfIdle /\ RecIdle /\ BibIdle /\ DepIdle

\* "doi_url": fix_doi_url(fields.get("doi", "") or fields.get("doi_url", ""))
Canonicalize ==
    /\ link_pc = "start"
    /\ doi_url' = fix_doi_url(raw)
    /\ link_pc' = "fixed"
    /\ UNCHANGED <<raw, doi_again, pf_vars, rec_vars, bib_vars, dep_vars>>

\* the emitted doi_url given to fix_doi_url again
Recanonicalize ==
    /\ link_pc = "fixed"
    /\ doi_again' = fix_doi_url(doi_url)
    /\ link_pc' = "refixed"
    /\ UNCHANGED <<raw, doi_url, pf_vars, rec_vars, bib_vars, dep_vars>>

LinkNext == Canonicalize \/ Recanonicalize

SpecLink == LinkInit /\ [][LinkNext]_vars

\* the same, on URL-shaped values: up to MaxLinkChunks scheme prefixes, then a
\* DOI, a doi.org address or another host and path
SchemeChunks == { HttpScheme, HttpsScheme, Chars("ftp://") }

UrlTails == { Chars("10.1/x"), Chars("doi.org/10.1/x"), Chars("example.org/p") }

UrlInputs == { p \o u : p \in Concats(SchemeChunks, MaxLinkChunks), u \in UrlTails }

UrlInit ==
    /\ raw \in UrlInputs
    /\ doi_url = <<>> /\ doi_again = <<>> /\ link_pc = "start"
    /\ PfIdle /\ RecIdle /\ BibIdle /\ DepIdle

SpecUrl == UrlInit /\ [][LinkNext]_vars

\* a scheme name followed by "://" at the start of s
SchemeChars == {LowerLetters[k] : k \in 1..26} \cup {UpperLetters[k] : k \in 1..26}
                 \cup {Digits[k] : k \in 1..10} \cup {"+", "-", "."}

IsAbsoluteUrl(s) ==
    \E n \in 1..Len(s) :
        /\ \A i \in 1..n : s[i] \in SchemeChars
        /\ s[1] \notin {Digits[k] : k \in 1..10} \cup {"+", "-", "."}
        /\ StartsWith(Drop(s, n), Chars("://"))

IsDoiOrgUrl(s) == StartsWith(s, HttpDoi) \/ StartsWith(s, HttpsDoi)

IsSchemedDoi(s) ==
    \/ StartsWith(s, DoiPrefix)
    \/ StartsWith(s, HttpScheme) /\ StartsWith(Drop(s, Len(HttpScheme)), DoiPrefix)
    \/ StartsWith(s, HttpsScheme) /\ StartsWith(Drop(s, Len(HttpsScheme)), DoiPrefix)

\* the cleaned value is none of: empty, a doi.org URL, a DOI, an absolute URL
Unrecognized(v) ==
    LET c == clean_tex(v)
    IN  c # <<>> /\ ~IsDoiOrgUrl(c) /\ ~IsSchemedDoi(c) /\ ~IsAbsoluteUrl(c)

C2_Idempotent ==
    link_pc = "refixed" => doi_again = doi_url

\* C3: a cleaned value that is an absolute URL, and neither a doi.org URL nor a
\* scheme-prefixed DOI, is returned unchanged, scheme included.
C3_UrlUnchanged ==
    LET c == clean_tex(raw)
    IN  (link_pc # "start" /\ IsAbsoluteUrl(c) /\ ~IsDoiOrgUrl(c) /\ ~IsSchemedDoi(c))
            => doi_url = c

(***************************************************************************)
(* parse_fields: the Field Splitter                                        *)
(***************************************************************************)

\* the if / elif chain on depth, without the depth > 0 guard of the last branch
NextDepthUnguarded(ch, d, q) ==
    IF ch = "\"" /\ d = 0 THEN d
    ELSE IF ch = "{" /\ ~q THEN d + 1
    ELSE IF ch = "}" /\ ~q THEN d - 1
    ELSE d

\* depth after the if / elif chain has read ch
NextDepth(ch, d, q) ==
    IF ch = "\"" /\ d = 0 THEN d
    ELSE IF ch = "{" /\ ~q THEN d + 1
    ELSE IF ch = "}" /\ ~q /\ d > 0 THEN d - 1
    ELSE d

\* in_quotes after the if / elif chain has read ch
NextQuotes(ch, d, q) == IF ch = "\"" /\ d = 0 THEN ~q ELSE q

\* a separator test that looks at the quote flag alone
IsSeparatorAnyDepth(ch, d, q) == ch = "," /\ ~q

\* if ch == "," and depth == 0 and not in_quotes
IsSeparator(ch, d, q) == ch = "," /\ d = 0 /\ ~q

\* part = "".join(buf).strip(); if part: parts.append(part)
Flush(ps, b) == IF Strip(b) # <<>> THEN Append(ps, Strip(b)) ELSE ps

\* index of the first "=" of part, 0 when it has none
FirstEq(part) ==
    IF \E i \in 1..Len(part) : part[i] = "="
    THEN CHOOSE i \in 1..Len(part) : part[i] = "=" /\ \A j \in 1..(i - 1) : part[j] # "="
    ELSE 0

\* fields[k] = v
DictSet(f, k, v) == [x \in DOMAIN f \cup {k} |-> IF x = k THEN v ELSE f[x]]

\* dict.get(k, "")
Get(f, k) == IF k \in DOMAIN f THEN f[k] ELSE <<>>

\* the loop over parts that fills the dictionary
RECURSIVE BuildFields(_, _)
BuildFields(ps, f) ==
    IF ps = <<>> THEN f
    ELSE LET part == Head(ps)
             e    == FirstEq(part)
         IN  IF e = 0 THEN BuildFields(Tail(ps), f)
             ELSE BuildFields(Tail(ps),
                              DictSet(f, Lower(Strip(SubSeq(part, 1, e - 1))),
                                      Strip(Drop(part, e))))

\* the whole of parse_fields, as parse_bibtex calls it
RECURSIVE ScanFrom(_, _, _, _, _)
ScanFrom(s, b, ps, d, q) ==
    IF s = <<>> THEN Flush(ps, b)
    ELSE LET ch == Head(s)
             d2 == NextDepth(ch, d, q)
             q2 == NextQuotes(ch, d, q)
         IN  IF IsSeparator(ch, d2, q2)
             THEN ScanFrom(Tail(s), <<>>, Flush(ps, b), d2, q2)
             ELSE ScanFrom(Tail(s), Append(b, ch), ps, d2, q2)

parse_fields(text) == BuildFields(ScanFrom(text, <<>>, <<>>, 0, FALSE), <<>>)

MaxBodyLen == 5

BodyAlphabet == { <<"a">>, <<"=">>, <<",">>, <<"{">>, <<"}">>, <<"\"">>, <<" ">> }

BodyExamples ==
    { Chars("keywords = {a, b, c}"),
      Chars("a = \"x, y\", b = {{p}, q}"),
      Chars("\n title = {T},\n year = {2020}") }

Bodies == Concats(BodyAlphabet, MaxBodyLen) \cup BodyExamples

FieldsInit ==
    /\ body \in Bodies
    /\ pos = 0 /\ buf = <<>> /\ parts = <<>> /\ depth = 0 /\ in_quotes = FALSE
    /\ fields = <<>> /\ pf_pc = "scan"
    /\ LinkIdle /\ RecIdle /\ BibIdle /\ DepIdle

\* one iteration of "for ch in body"
ScanChar ==
    /\ pf_pc = "scan"
    /\ pos < Len(body)
    /\ LET ch == body[pos + 1]
           d2 == NextDepth(ch, depth, in_quotes)
           q2 == NextQuotes(ch, depth, in_quotes)
       IN  /\ depth' = d2
           /\ in_quotes' = q2
           /\ IF IsSeparator(ch, d2, q2)
              THEN parts' = Flush(parts, buf) /\ buf' = <<>>
              ELSE parts' = parts /\ buf' = Append(buf, ch)
    /\ pos' = pos + 1
    /\ UNCHANGED <<body, fields, pf_pc, link_vars, rec_vars, bib_vars, dep_vars>>

\* after the loop: the tail part, then the dictionary
FinishScan ==
    /\ pf_pc = "scan"
    /\ pos = Len(body)
    /\ parts' = Flush(parts, buf)
    /\ fields' = BuildFields(parts', <<>>)
    /\ pf_pc' = "done"
    /\ UNCHANGED <<body, pos, buf, depth, in_quotes, link_vars, rec_vars, bib_vars, dep_vars>>

FieldsNext == ScanChar \/ FinishScan

SpecFields == FieldsInit /\ [][FieldsNext]_vars

\* the scan is about to read the character ch
Reading(ch) == pf_pc = "scan" /\ pos < Len(body) /\ pos' = pos + 1 /\ body[pos + 1] = ch

KeywordsBody == Chars("keywords = {a, b, c}")

C4_CommaStep ==
    Reading(",") =>
        IF depth = 0 /\ ~in_quotes
        THEN buf' = <<>> /\ parts' = Flush(parts, buf)
        ELSE buf' = Append(buf, ",") /\ parts' = parts

C4_KeywordsExample ==
    (pf_pc = "done" /\ body = KeywordsBody) =>
        /\ DOMAIN fields = {Chars("keywords")}
        /\ split_tags(fields[Chars("keywords")]) = << <<"a">>, <<"b">>, <<"c">> >>

\* C4: a comma ends the current field exactly when it is read at brace depth 0 and
\* outside quotes; any other comma is appended to the current field, and the body
\* keywords = {a, b, c} gives the single field keywords with tags a, b, c.
C4_CommaEndsField == [][C4_CommaStep]_vars /\ []C4_KeywordsExample

C4_Witness ==
    /\ pf_pc = "done"
    /\ body = KeywordsBody
    /\ Cardinality(DOMAIN fields) = 1
    /\ fields[Chars("keywords")] = Chars("{a, b, c}")

UnmatchedBody == Chars("},a=")

C8_QuoteStep ==
    in_quotes' # in_quotes =>
        \E ch \in {"\""} : Reading(ch) /\ depth = 0

C8_CloseAtZeroStep == (Reading("}") /\ depth = 0) => depth' = 0

C8_UnmatchedExample ==
    (pf_pc = "done" /\ body = UnmatchedBody) => fields = DictSet(<<>>, <<"a">>, <<>>)

\* C8: the brace depth is never negative; a closing brace read at depth 0 leaves it
\* at 0, so the comma after an unmatched closing brace still separates fields; and
\* in_quotes changes only when a double quote is read at depth 0.
C8_DepthNeverNegative ==
    /\ [](depth \in Nat)
    /\ [][C8_CloseAtZeroStep]_vars
    /\ [][C8_QuoteStep]_vars
    /\ []C8_UnmatchedExample

C8_Witness ==
    /\ pf_pc = "done"
    /\ body = UnmatchedBody
    /\ depth = 0
    /\ DOMAIN fields = {<<"a">>}

(***************************************************************************)
(* Record Builder                                                          *)
(***************************************************************************)

\* a or b, on Python strings: the first when it is non-empty
Or(a, b) == IF a # <<>> THEN a ELSE b

pick_date(f) ==
    LET d == clean_tex(Get(f, Chars("date")))
        y == clean_tex(Get(f, Chars("year")))
    IN  IF d # <<>> THEN d
        ELSE IF y # <<>> THEN y \o Chars("-01-01") ELSE <<>>

\* pick_year slicing the date without looking at its length
pick_year_unchecked(f) ==
    LET y == clean_tex(Get(f, Chars("year")))
        d == clean_tex(Get(f, Chars("date")))
    IN  IF y # <<>> THEN y ELSE SubSeq(d, 1, IF Len(d) < 4 THEN Len(d) ELSE 4)

pick_year(f) ==
    LET y == clean_tex(Get(f, Chars("year")))
        d == clean_tex(Get(f, Chars("date")))
    IN  IF y # <<>> THEN y
        ELSE IF Len(d) >= 4 THEN SubSeq(d, 1, 4) ELSE <<>>

pick_venue(f) ==
    clean_tex(Or(Get(f, Chars("journaltitle")),
              Or(Get(f, Chars("journal")),
              Or(Get(f, Chars("booktitle")),
              Or(Get(f, Chars("publisher")), <<>>)))))

parse_authors(f) ==
    LET a == clean_tex(Get(f, Chars("author")))
    IN  IF a = <<>> THEN <<>> ELSE StripNonEmpty(Split(a, Chars(" and ")))

\* title = clean_tex(fields.get("title", ""))
TitleOf(f) == clean_tex(Get(f, Chars("title")))

\* the item dictionary of one entry
BuildItem(entryid, entrytype, f) ==
    [ id       |-> entryid,
      type     |-> entrytype,
      title    |-> TitleOf(f),
      authors  |-> parse_authors(f),
      venue    |-> pick_venue(f),
      year     |-> pick_year(f),
      date     |-> pick_date(f),
      doi_url  |-> fix_doi_url(Or(Get(f, Chars("doi")), Get(f, Chars("doi_url")))),
      note     |-> clean_tex(Or(Get(f, Chars("note")), Get(f, Chars("pubstate")))),
      keywords |-> IF split_tags(Get(f, Chars("keywords"))) # <<>>
                   THEN split_tags(Get(f, Chars("keywords")))
                   ELSE split_tags(Get(f, Chars("themes"))) ]

\* raw field values as parse_fields stores them (stripped, wrapping kept)
RawValues ==
    { Chars("{2020}"), Chars("\"2020\""), Chars("2020"), Chars("{}"), <<>>,
      Chars("{ 2019-05-01 }"), Chars("{19}"), Chars("{{2021}}"), Chars("{2019-05}") }

Absent == <<"absent">>

\* the field map holding the given values, a field left out when Absent
MapOf(t, y, d) ==
    [k \in {x \in {Chars("title"), Chars("year"), Chars("date")} :
                \/ (x = Chars("title") /\ t # Absent)
                \/ (x = Chars("year") /\ y # Absent)
                \/ (x = Chars("date") /\ d # Absent)}
        |-> IF k = Chars("title") THEN t ELSE IF k = Chars("year") THEN y ELSE d]

FieldMaps ==
    { MapOf(t, y, d) : t \in {Chars("{A {B} C}"), Chars("{}"), Absent},
                       y \in RawValues \cup {Absent},
                       d \in RawValues \cup {Absent} }

RecordInit ==
    /\ fmap \in FieldMaps
    /\ item = <<>> /\ rec_pc = "title"
    /\ LinkIdle /\ PfIdle /\ BibIdle /\ DepIdle

\* if not title: continue
SkipUntitled ==
    /\ rec_pc = "title"
    /\ TitleOf(fmap) = <<>>
    /\ rec_pc' = "skipped"
    /\ UNCHANGED <<fmap, item, link_vars, pf_vars, bib_vars, dep_vars>>

\* item = {...}
MakeItem ==
    /\ rec_pc = "title"
    /\ TitleOf(fmap) # <<>>
    /\ item' = BuildItem(Chars("k1"), Chars("article"), fmap)
    /\ rec_pc' = "built"
    /\ UNCHANGED <<fmap, link_vars, pf_vars, bib_vars, dep_vars>>

RecordNext == SkipUntitled \/ MakeItem

SpecRecord == RecordInit /\ [][RecordNext]_vars

\* C7: date is the cleaned date field when non-empty, else year + "-01-01" when the
\* cleaned year is non-empty, else empty; year is the cleaned year field when
\* non-empty, else the first 4 characters of a cleaned date of length >= 4, else
\* empty. year = {2020} without a date field gives 2020-01-01 and 2020.
C7_DateYearFallback ==
    rec_pc = "built" =>
        LET d == clean_tex(Get(fmap, Chars("date")))
            y == clean_tex(Get(fmap, Chars("year")))
        IN  /\ d # <<>> => item.date = d
            /\ (d = <<>> /\ y # <<>>) => item.date = y \o Chars("-01-01")
            /\ (d = <<>> /\ y = <<>>) => item.date = <<>>
            /\ y # <<>> => item.year = y
            /\ (y = <<>> /\ Len(d) >= 4) => item.year = SubSeq(d, 1, 4)
            /\ (y = <<>> /\ Len(d) < 4) => item.year = <<>>
            /\ (Chars("date") \notin DOMAIN fmap /\ Get(fmap, Chars("year")) = Chars("{2020}"))
                   => (item.date = Chars("2020-01-01") /\ item.year = Chars("2020"))

C7_Witness ==
    /\ rec_pc = "built"
    /\ Chars("date") \notin DOMAIN fmap
    /\ Get(fmap, Chars("year")) = Chars("{2020}")
    /\ item.date = Chars("2020-01-01")
    /\ item.year = Chars("2020")

(***************************************************************************)
(* ENTRY_RE, parse_bibtex and main                                         *)
(***************************************************************************)

\* the regex class \w
IsWord(c) ==
    \/ \E k \in 1..26 : c = LowerLetters[k] \/ c = UpperLetters[k]
    \/ \E k \in 1..10 : c = Digits[k]
    \/ c = "_"

\* length of the longest prefix of s matching \w*
RECURSIVE WordRun(_)
WordRun(s) == IF s # <<>> /\ IsWord(Head(s)) THEN 1 + WordRun(Tail(s)) ELSE 0

\* length of the longest prefix of s matching \s*
SpaceRun(s) == Len(s) - Len(LStrip(s))

\* index of the first occurrence of p in s, 0 when there is none
RECURSIVE FindFrom(_, _, _)
FindFrom(s, p, i) ==
    IF i + Len(p) - 1 > Len(s) THEN 0
    ELSE IF SubSeq(s, i, i + Len(p) - 1) = p THEN i
    ELSE FindFrom(s, p, i + 1)

Find(s, p) == FindFrom(s, p, 1)

NoMatch == [len |-> 0]

\* ENTRY_RE = @(\w+)\s*\{\s*([^,]+)\s*,(.*?)\n\}  with re.S, tried at the start of s:
\* the groups and the length of the match, or NoMatch
MatchEntry(s) ==
    IF s = <<>> \/ Head(s) # "@" THEN NoMatch
    ELSE LET w      == WordRun(Tail(s))
             after  == Drop(s, 1 + w)
             sp     == SpaceRun(after)
             brace  == Drop(after, sp)
             inner  == Drop(brace, 1)
             comma  == Find(inner, <<",">>)
             rest   == Drop(inner, comma)
             close  == Find(rest, <<"\n", "}">>)
             lead   == SpaceRun(inner)
             idfrom == IF lead >= comma - 1 THEN comma - 1 ELSE lead + 1
         IN  IF w = 0 \/ brace = <<>> \/ Head(brace) # "{" THEN NoMatch
             ELSE IF comma <= 1 THEN NoMatch
             ELSE IF close = 0 THEN NoMatch
             ELSE [ len |-> 1 + w + sp + 1 + comma + (close - 1) + 2,
                    g1  |-> SubSeq(s, 2, 1 + w),
                    g2  |-> SubSeq(inner, idfrom, comma - 1),
                    g3  |-> SubSeq(rest, 1, close - 1) ]

\* ENTRY_RE.finditer(text): the non-overlapping matches, leftmost first
RECURSIVE finditer(_)
finditer(s) ==
    IF s = <<>> THEN <<>>
    ELSE LET m == MatchEntry(s)
         IN  IF m.len = 0 THEN finditer(Tail(s))
             ELSE <<[g1 |-> m.g1, g2 |-> m.g2, g3 |-> m.g3]>> \o finditer(Drop(s, m.len))

\* a loop body that also drops entries without a year
EntryItemsNeedingYear(m) ==
    LET f == parse_fields(m.g3)
    IN  IF TitleOf(f) = <<>> \/ pick_year(f) = <<>> THEN <<>>
        ELSE <<BuildItem(Strip(m.g2), Lower(m.g1), f)>>

\* one iteration of the loop of parse_bibtex: what it appends to out
EntryItems(m) ==
    LET f == parse_fields(m.g3)
    IN  IF TitleOf(f) = <<>> THEN <<>>
        ELSE <<BuildItem(Strip(m.g2), Lower(m.g1), f)>>

\* items.extend(...) putting the new records first
ExtendFront(its, new) == new \o its

\* items.extend(parse_bibtex(...))
Extend(its, new) == its \o new

NumFiles == 2

MaxEntries == 2

EntryPool ==
    { Chars("@Article{k1,\n title = {T}\n}\n"),
      Chars("@book{k2,\n year = 2020\n}\n"),
      Chars("@Misc{ k3 ,\n title = {}\n}\n"),
      Chars("@online {k5, title = \"U, V\"}\n") }

Missing == <<"missing">>

Documents == Concats(EntryPool, MaxEntries)

BibInit ==
    /\ files \in [1..NumFiles -> Documents \cup {Missing}]
    /\ fidx = 0 /\ matches = <<>> /\ out = <<>> /\ items = <<>> /\ bib_pc = "main"
    /\ LinkIdle /\ PfIdle /\ RecIdle /\ DepIdle

\* for f in BIB_FILES: if f.exists(): parse_bibtex(f.read_text())
OpenFile ==
    /\ bib_pc = "main"
    /\ fidx < NumFiles
    /\ files[fidx + 1] # Missing
    /\ fidx' = fidx + 1
    /\ matches' = finditer(files[fidx + 1])
    /\ out' = <<>>
    /\ bib_pc' = "parse"
    /\ UNCHANGED <<files, items, link_vars, pf_vars, rec_vars, dep_vars>>

\* for f in BIB_FILES: f.exists() is false
SkipMissingFile ==
    /\ bib_pc = "main"
    /\ fidx < NumFiles
    /\ files[fidx + 1] = Missing
    /\ fidx' = fidx + 1
    /\ UNCHANGED <<files, matches, out, items, bib_pc, link_vars, pf_vars, rec_vars, dep_vars>>

\* for m in ENTRY_RE.finditer(text): ...
ParseEntry ==
    /\ bib_pc = "parse"
    /\ matches # <<>>
    /\ out' = out \o EntryItems(Head(matches))
    /\ matches' = Tail(matches)
    /\ UNCHANGED <<files, fidx, items, bib_pc, link_vars, pf_vars, rec_vars, dep_vars>>

\* return out; items.extend(out)
ReturnRecords ==
    /\ bib_pc = "parse"
    /\ matches = <<>>
    /\ items' = Extend(items, out)
    /\ out' = <<>>
    /\ bib_pc' = "main"
    /\ UNCHANGED <<files, fidx, matches, link_vars, pf_vars, rec_vars, dep_vars>>

\* OUT_JSON.write_text(json.dumps(items, ...))
WriteJson ==
    /\ bib_pc = "main"
    /\ fidx = NumFiles
    /\ bib_pc' = "written"
    /\ UNCHANGED <<files, fidx, matches, out, items, link_vars, pf_vars, rec_vars, dep_vars>>

BibNext == OpenFile \/ SkipMissingFile \/ ParseEntry \/ ReturnRecords \/ WriteJson

SpecBib == BibInit /\ [][BibNext]_vars

\* the entries ENTRY_RE extracts from file k (none when the file is missing)
Extracted(k) == IF files[k] = Missing THEN <<>> ELSE finditer(files[k])

Titled(e) == clean_tex(Get(parse_fields(e.g3), Chars("title"))) # <<>>

\* id and lower-cased type of the titled entries of es, in order
RECURSIVE KeptOf(_)
KeptOf(es) ==
    IF es = <<>> THEN <<>>
    ELSE (IF Titled(Head(es))
          THEN <<[id |-> Strip(Head(es).g2), type |-> Lower(Head(es).g1)]>>
          ELSE <<>>) \o KeptOf(Tail(es))

RECURSIVE KeptUpTo(_)
KeptUpTo(k) == IF k = 0 THEN <<>> ELSE KeptUpTo(k - 1) \o KeptOf(Extracted(k))

\* number of files main has finished with
FilesDone == IF bib_pc = "parse" THEN fidx - 1 ELSE fidx

\* the entries of the current file that the loop of parse_bibtex has been through
Consumed ==
    LET all == Extracted(fidx)
    IN  SubSeq(all, 1, Len(all) - Len(matches))

IdTypes(rs) == [i \in 1..Len(rs) |-> [id |-> rs[i].id, type |-> rs[i].type]]

\* C5: every record has a non-empty title, and the records are as many as the
\* extracted entries with a non-empty cleaned title: nothing else drops an entry.
C5_TitleIsSoleFilter ==
    /\ \A i \in 1..Len(items) : items[i].title # <<>>
    /\ \A i \in 1..Len(out) : out[i].title # <<>>
    /\ bib_pc # "idle" => Len(items) = Len(KeptUpTo(FilesDone))
    /\ bib_pc = "parse" => Len(out) = Len(KeptOf(Consumed))

C5_Witness ==
    /\ bib_pc = "written"
    /\ Len(items) = 1
    /\ Len(Extracted(1)) = 2
    /\ ~Titled(Extracted(1)[2])
    /\ files[2] = Missing

MaxRuns == 2

Autostash == "deploy.py autostash"

Trees == [staged : BOOLEAN, unstaged : BOOLEAN, untracked : BOOLEAN]

\* a stash entry: its message and who pushed it (run number, 0 for the user)
UserEntry == [msg |-> "WIP on main", by |-> 0]

\* git status --porcelain prints a line: staged, unstaged and untracked ("??") alike
git_has_changes(tr) == tr.staged \/ tr.unstaged \/ tr.untracked

\* git stash push (no --include-untracked) has something to save
StashPushSaves(tr) == tr.staged \/ tr.unstaged

DeployInit ==
    /\ tree \in Trees
    /\ stash \in {<<>>, <<UserEntry>>}
    /\ stashed = FALSE /\ run = 0 /\ popped = <<>>
    /\ dpc = "shell"
    /\ LinkIdle /\ PfIdle /\ RecIdle /\ BibIdle

\* between runs the user edits files
UserEdit ==
    /\ dpc = "shell"
    /\ run < MaxRuns
    /\ tree' \in Trees
    /\ UNCHANGED <<stash, stashed, run, popped, dpc,
                   link_vars, pf_vars, rec_vars, bib_vars>>

\* python deploy.py; main() up to and including git switch main
StartRun ==
    /\ dpc = "shell"
    /\ run < MaxRuns
    /\ run' = run + 1
    /\ stashed' = FALSE
    /\ dpc' = "stash"
    /\ UNCHANGED <<tree, stash, popped, link_vars, pf_vars, rec_vars, bib_vars>>

\* stashed = stash_if_needed()
StashIfNeeded ==
    /\ dpc = "stash"
    /\ IF ~git_has_changes(tree)
       THEN stashed' = FALSE /\ UNCHANGED <<tree, stash>>
       ELSE /\ stashed' = TRUE
            /\ IF StashPushSaves(tree)
               THEN /\ stash' = <<[msg |-> Autostash, by |-> run]>> \o stash
                    /\ tree' = [tree EXCEPT !.unstaged = FALSE]
               ELSE UNCHANGED <<tree, stash>>
    /\ dpc' = "fetch"
    /\ UNCHANGED <<run, popped, link_vars, pf_vars, rec_vars, bib_vars>>

\* git fetch origin --prune
GitFetch ==
    /\ dpc = "fetch"
    /\ dpc' \in {"pull", "failed"}
    /\ UNCHANGED <<tree, stash, stashed, run, popped,
                   link_vars, pf_vars, rec_vars, bib_vars>>

\* git pull --rebase origin main: refused on a dirty index or tracked changes
GitPull ==
    /\ dpc = "pull"
    /\ \/ dpc' = "failed"
       \/ ~tree.staged /\ ~tree.unstaged /\ dpc' = (IF stashed THEN "pop" ELSE "render")
    /\ UNCHANGED <<tree, stash, stashed, run, popped,
                   link_vars, pf_vars, rec_vars, bib_vars>>

\* if stashed: pop_stash_if_present()
PopStashIfPresent ==
    /\ dpc = "pop"
    /\ IF stash # <<>> /\ Head(stash).msg = Autostash
       THEN /\ stash' = Tail(stash)
            /\ tree' = [tree EXCEPT !.unstaged = TRUE]
            /\ popped' = Append(popped, [run |-> run, entry |-> Head(stash)])
       ELSE UNCHANGED <<tree, stash, popped>>
    /\ dpc' = "render"
    /\ UNCHANGED <<stashed, run, link_vars, pf_vars, rec_vars, bib_vars>>

\* if do_render: quarto render (which may write files); --no-render skips it
Render ==
    /\ dpc = "render"
    /\ \/ dpc' = "commit" /\ UNCHANGED tree
       \/ dpc' = "commit" /\ tree' = [tree EXCEPT !.unstaged = TRUE]
       \/ dpc' = "failed" /\ UNCHANGED tree
    /\ UNCHANGED <<stash, stashed, run, popped,
                   link_vars, pf_vars, rec_vars, bib_vars>>

\* if git_has_changes(): git add -A; git commit -m msg
CommitIfChanges ==
    /\ dpc = "commit"
    /\ IF git_has_changes(tree)
       THEN tree' = [staged |-> FALSE, unstaged |-> FALSE, untracked |-> FALSE]
       ELSE UNCHANGED tree
    /\ dpc' = "push"
    /\ UNCHANGED <<stash, stashed, run, popped,
                   link_vars, pf_vars, rec_vars, bib_vars>>

\* git push origin main
GitPush ==
    /\ dpc = "push"
    /\ dpc' \in {"done", "failed"}
    /\ UNCHANGED <<tree, stash, stashed, run, popped,
                   link_vars, pf_vars, rec_vars, bib_vars>>

\* the process exits: normally, or on the CalledProcessError raised again
EndRun ==
    /\ dpc \in {"done", "failed"}
    /\ dpc' = "shell"
    /\ UNCHANGED <<tree, stash, stashed, run, popped,
                   link_vars, pf_vars, rec_vars, bib_vars>>

DeployNext ==
    \/ UserEdit \/ StartRun \/ StashIfNeeded \/ GitFetch \/ GitPull
    \/ PopStashIfPresent \/ Render \/ CommitIfChanges \/ GitPush \/ EndRun

SpecDeploy == DeployInit /\ [][DeployNext]_vars

\* C9: stash_if_needed returns True exactly when the call pushed a stash entry,
\* and it leaves untracked files in place.
C9_TrueIffStashed ==
    [][ (dpc = "stash" /\ dpc' = "fetch") =>
            /\ stashed' <=> (Len(stash') = Len(stash) + 1)
            /\ tree'.untracked = tree.untracked ]_vars

\* C10: pop_stash_if_present pops only the autostash that the same run's
\* stash_if_needed pushed.
C10_PopsOwnStashOnly ==
    \A i \in 1..Len(popped) : popped[i].entry.by = popped[i].run
====
